---- MODULE Spec2Model ----
(***************************************************************************)
(* Model of the music-player server (Express handlers over a JSON document *)
(* db.json and an upload directory).  Every handler is an async function:  *)
(* it awaits readDB, runs its synchronous continuation on the loaded copy, *)
(* and awaits writeDB.  Other requests run between the awaits, so each     *)
(* await is a separate step of the model.                                  *)
(*                                                                         *)
(* Strings the code inspects (Range headers, names, file names) are        *)
(* sequences of one-character strings.  uuidv4() is a fresh number.        *)
(***************************************************************************)
EXTENDS Integers, Sequences, FiniteSets, TLC

VARIABLES dbFile, files, reqs, res, nextId, now, started, state, audio, call

vars == <<dbFile, files, reqs, res, nextId, now, started, state, audio, call>>

\* the server's variables, and the page's (public/app.js): its state object,
\* its audio element and the callback it is running
server == <<dbFile, files, reqs, res, nextId, now, started>>

page == <<state, audio, call>>

(***************************************************************************)
(* Bounds of the model.                                                    *)
(***************************************************************************)
\* requests that arrive after the server has started
MaxReqs == 2
\* files carried by one upload request in the model (the code allows 20)
MaxBatch == 2
\* largest reading of Date.now()
MaxClock == 1
\* upload.array('files', 20)
MaxUploadFiles == 20

\* request handlers that may be between two awaits at the same time
Slots == {1, 2}

(***************************************************************************)
(* JavaScript values.                                                      *)
(***************************************************************************)
\* Number: an integer, or NaN
NaN == -999

Min(a, b) == IF a < b THEN a ELSE b

DigitChars == <<"0", "1", "2", "3", "4", "5", "6", "7", "8", "9">>

IsDigit(c) == \E i \in 1..10 : DigitChars[i] = c

DigitVal(c) == (CHOOSE i \in 1..10 : DigitChars[i] = c) - 1

IsSpace(c) == c \in {" ", "\t", "\n"}

\* `${n}` of a Number
RECURSIVE NumToString(_)
NumToString(n) ==
  IF n = NaN THEN <<"N", "a", "N">>
  ELSE IF n < 0 THEN <<"-">> \o NumToString(0 - n)
  ELSE IF n < 10 THEN <<DigitChars[n + 1]>>
  ELSE NumToString(n \div 10) \o <<DigitChars[(n % 10) + 1]>>

\* the characters of s from position i on
Drop(s, i) == SubSeq(s, i, Len(s))

\* String.prototype.trim
RECURSIVE TrimStart(_)
TrimStart(s) ==
  IF s # <<>> /\ IsSpace(Head(s)) THEN TrimStart(Tail(s)) ELSE s

RECURSIVE TrimEnd(_)
TrimEnd(s) ==
  IF s # <<>> /\ IsSpace(s[Len(s)]) THEN TrimEnd(SubSeq(s, 1, Len(s) - 1)) ELSE s

trim(s) == TrimEnd(TrimStart(s))

\* value of the longest prefix of decimal digits of s, on top of acc
RECURSIVE DigitsValue(_, _)
DigitsValue(s, acc) ==
  IF s # <<>> /\ IsDigit(Head(s))
  THEN DigitsValue(Tail(s), 10 * acc + DigitVal(Head(s)))
  ELSE acc

\* parseInt(s, 10): leading white space, a sign, then digits; NaN without a digit
parseInt(s) ==
  LET t == TrimStart(s)
      signed == t # <<>> /\ Head(t) \in {"+", "-"}
      d == IF signed THEN Tail(t) ELSE t
  IN IF d = <<>> \/ ~IsDigit(Head(d)) THEN NaN
     ELSE IF signed /\ Head(t) = "-" THEN 0 - DigitsValue(d, 0)
     ELSE DigitsValue(d, 0)

\* a - b and a + b on Numbers
NumSub(a, b) == IF a = NaN \/ b = NaN THEN NaN ELSE a - b

NumAdd(a, b) == IF a = NaN \/ b = NaN THEN NaN ELSE a + b

\* first position at which pat occurs in s, 0 when it does not
IndexOf(s, pat) ==
  LET hits == {i \in 1..(Len(s) - Len(pat) + 1) : SubSeq(s, i, i + Len(pat) - 1) = pat}
  IN IF hits = {} THEN 0 ELSE CHOOSE i \in hits : \A j \in hits : i <= j

\* s.replace(/pat/, ''): the first occurrence of pat removed
RemoveFirst(s, pat) ==
  LET i == IndexOf(s, pat)
  IN IF i = 0 THEN s ELSE SubSeq(s, 1, i - 1) \o Drop(s, i + Len(pat))

\* s.split(c)
RECURSIVE split(_, _)
split(s, c) ==
  LET i == IndexOf(s, <<c>>)
  IN IF i = 0 THEN <<s>> ELSE <<SubSeq(s, 1, i - 1)>> \o split(Drop(s, i + 1), c)

(***************************************************************************)
(* The persisted document and the upload directory.                        *)
(***************************************************************************)
\* original names of uploaded files, bytes of uploaded files, urls, names
OriginalNames == {<<"a">>}

Contents == {<<65, 66, 67>>}

\* a body property that is absent: no string of characters is this value
undefined == <<"undefined">>

\* !s for a string or undefined
Falsy(s) == s = undefined \/ s = <<>>

\* the test of a playlist name without the trim
BlankNameNoTrim(name) == Falsy(name)

\* !name || !name.trim()
BlankName(name) == Falsy(name) \/ Falsy(trim(name))

Urls == {undefined, <<>>, <<"h", "/", "s">>}

Names == {undefined, <<>>, <<" ", "\t">>, <<"P">>, <<" ", "P", "\t">>}

\* a value that is the id of no track and no playlist: an unknown id in the
\* path, an unknown or absent trackId in the body
NoId == 0

NoPath == <<>>

\* { tracks: [], playlists: {} }
EmptyDB == [tracks |-> <<>>, playlists |-> <<>>]

\* db.json absent or unparseable
NoDoc == [ok |-> FALSE, tracks |-> <<>>, playlists |-> <<>>]

readDB(doc) ==
  IF doc.ok THEN [tracks |-> doc.tracks, playlists |-> doc.playlists] ELSE EmptyDB

writeDB(db) == [ok |-> TRUE, tracks |-> db.tracks, playlists |-> db.playlists]

\* `${Date.now()}-${file.originalname}`
filename(clock, originalname) == NumToString(clock) \o <<"-">> \o originalname

\* tracks.findIndex(t => t.id === id), counted from 1; 0 for -1
findIndex(tracks, id) ==
  LET hits == {i \in 1..Len(tracks) : tracks[i].id = id}
  IN IF hits = {} THEN 0 ELSE CHOOSE i \in hits : \A j \in hits : i <= j

\* splice at the position before idx
spliceBefore(tracks, idx) ==
  SubSeq(tracks, 1, idx - 2) \o SubSeq(tracks, idx, Len(tracks))

\* tracks.splice(idx, 1)
splice(tracks, idx) == SubSeq(tracks, 1, idx - 1) \o SubSeq(tracks, idx + 1, Len(tracks))

\* trackIds.filter(x => x !== id)
filter(trackIds, id) == SelectSeq(trackIds, LAMBDA x : x # id)

includes(trackIds, id) == \E i \in 1..Len(trackIds) : trackIds[i] = id

\* the ids of a sequence of tracks
TrackIdsOf(tracks) == {tracks[i].id : i \in 1..Len(tracks)}

\* a key every object inherits from Object.prototype ("constructor"): a path
\* parameter may name it, uuidv4 never does
ProtoKey == -1

\* db.playlists[id], as the test !pl sees it: an own entry, an inherited
\* property (truthy, without trackIds) or undefined
lookup(playlists, id) ==
  IF id \in DOMAIN playlists THEN "own"
  ELSE IF id = ProtoKey THEN "inherited"
  ELSE "undefined"

(***************************************************************************)
(* parseFromFilename.                                                      *)
(***************************************************************************)
\* a || b on strings
Or(a, b) == IF Falsy(a) THEN b ELSE a

\* what . of a regular expression does not match
IsLineTerminator(c) == c = "\n"

HasLineTerminator(s) == \E i \in 1..Len(s) : IsLineTerminator(s[i])

\* the extension /\.[^/.]+$/ matches: the last dot, when at least one
\* character follows it and no slash does; 0 when there is none
ExtensionAt(name) ==
  LET dots == {i \in 1..Len(name) : name[i] = "."}
      last == CHOOSE i \in dots : \A j \in dots : j <= i
  IN IF dots = {} THEN 0
     ELSE IF last < Len(name) /\ \A j \in (last + 1)..Len(name) : name[j] # "/"
     THEN last ELSE 0

\* name.replace(/\.[^/.]+$/, '')
WithoutExt(name) ==
  IF ExtensionAt(name) = 0 THEN name ELSE SubSeq(name, 1, ExtensionAt(name) - 1)

\* the number of characters \s* takes at the head of s
LeadingSpaces(s) ==
  LET stops == {i \in 1..Len(s) : ~IsSpace(s[i])}
  IN IF stops = {} THEN Len(s) ELSE (CHOOSE i \in stops : \A j \in stops : i <= j) - 1

\* (?:\s*\[(.*?)\])?$ on the rest of the stem with the group taken: white
\* space, an opening bracket, and a closing bracket as the last character
BracketMatches(rest) ==
  LET k == LeadingSpaces(rest)
  IN /\ k + 2 <= Len(rest)
     /\ rest[k + 1] = "["
     /\ rest[Len(rest)] = "]"
     /\ ~HasLineTerminator(SubSeq(rest, k + 2, Len(rest) - 1))

\* the ways /(.*?)-(.*?)(?:\s*\[(.*?)\])?$/ matches a stem: the match begins
\* after m[1] characters, the hyphen is at m[2] and the second group ends at
\* m[3]
Matches(stem) ==
  {m \in (0..Len(stem)) \X (1..Len(stem)) \X (1..Len(stem)) :
     /\ m[1] < m[2]
     /\ stem[m[2]] = "-"
     /\ m[2] <= m[3]
     /\ ~HasLineTerminator(SubSeq(stem, m[1] + 1, m[2] - 1))
     /\ ~HasLineTerminator(SubSeq(stem, m[2] + 1, m[3]))
     /\ \/ m[3] = Len(stem)
        \/ BracketMatches(SubSeq(stem, m[3] + 1, Len(stem)))}

\* the order in which the matcher tries them: leftmost start, then the lazy
\* groups as short as possible
Earlier(m, n) ==
  \/ m[1] < n[1]
  \/ m[1] = n[1] /\ m[2] < n[2]
  \/ m[1] = n[1] /\ m[2] = n[2] /\ m[3] <= n[3]

\* the hints without the trim of the three groups
parseFromFilenameNoTrim(name) ==
  LET stem == WithoutExt(name)
      ms == Matches(stem)
      g == CHOOSE m \in ms : \A n \in ms : Earlier(m, n)
      rest == SubSeq(stem, g[3] + 1, Len(stem))
  IN IF ms = {} THEN [title |-> stem, artist |-> <<>>, genre |-> <<>>]
     ELSE [artist |-> SubSeq(stem, g[1] + 1, g[2] - 1),
           title |-> SubSeq(stem, g[2] + 1, g[3]),
           genre |-> IF rest = <<>> THEN <<>>
                     ELSE SubSeq(rest, LeadingSpaces(rest) + 2, Len(rest) - 1)]

parseFromFilename(name) ==
  LET stem == WithoutExt(name)
      ms == Matches(stem)
      g == CHOOSE m \in ms : \A n \in ms : Earlier(m, n)
      rest == SubSeq(stem, g[3] + 1, Len(stem))
  IN IF ms = {} THEN [title |-> stem, artist |-> <<>>, genre |-> <<>>]
     ELSE [artist |-> trim(SubSeq(stem, g[1] + 1, g[2] - 1)),
           title |-> trim(SubSeq(stem, g[2] + 1, g[3])),
           genre |-> IF rest = <<>> THEN <<>>
                     ELSE trim(SubSeq(rest, LeadingSpaces(rest) + 2, Len(rest) - 1))]

(***************************************************************************)
(* Tracks.                                                                 *)
(***************************************************************************)
NoTrack ==
  [id |-> NoId, type |-> "none", path |-> NoPath, src |-> <<>>, title |-> <<>>,
   artist |-> <<>>, album |-> <<>>, genre |-> <<>>, duration |-> 0]

\* what mm.parseFile gives for an uploaded file: it throws (ok is FALSE), or
\* returns the common tags, each a string or absent, genre as an array (of
\* which genre is the first element, absent for an empty array) or not, and
\* the duration in seconds (0 for absent)
MmFailed ==
  [ok |-> FALSE, title |-> undefined, artist |-> undefined, album |-> undefined,
   genreIsArray |-> FALSE, genre |-> undefined, duration |-> 0]

MmTags ==
  [ok |-> TRUE, title |-> <<"T">>, artist |-> undefined, album |-> <<"L">>,
   genreIsArray |-> TRUE, genre |-> undefined, duration |-> 3]

MmResults == {MmFailed, MmTags}

\* metaParsed at the end of the try of the upload loop
MetaParsed(originalname, mm) ==
  LET hints == parseFromFilename(originalname)
  IN IF mm.ok
     THEN [title |-> Or(Or(mm.title, hints.title), originalname),
           artist |-> Or(Or(mm.artist, <<>>), hints.artist),
           album |-> Or(Or(mm.album, <<>>), <<>>),
           genre |-> IF mm.genreIsArray THEN Or(mm.genre, <<>>)
                     ELSE Or(Or(mm.genre, hints.genre), <<>>)]
     ELSE [title |-> hints.title, artist |-> hints.artist, album |-> undefined,
           genre |-> hints.genre]

\* the track the upload loop makes of one file of req.files
FileTrack(id, f, mm) ==
  LET metaParsed == MetaParsed(f.originalname, mm)
  IN [id |-> id, type |-> "file", path |-> f.filename, src |-> <<>>,
      title |-> Or(metaParsed.title, f.originalname),
      artist |-> Or(metaParsed.artist, <<>>),
      album |-> Or(metaParsed.album, <<>>),
      genre |-> Or(metaParsed.genre, <<>>),
      duration |-> IF mm.ok THEN mm.duration ELSE 0]

\* req.body of POST /api/music/url: url and the overrides, each a string or
\* absent
UrlBody(url) ==
  [url |-> url, title |-> undefined, artist |-> undefined, album |-> undefined,
   genre |-> undefined]

\* a destructuring default of ''
Default(v) == IF v = undefined THEN <<>> ELSE v

StreamName == <<"S", "t", "r", "e", "a", "m">>

\* url.split('/').pop() || 'Stream'
Segment(url) == LET parts == split(url, "/") IN Or(parts[Len(parts)], StreamName)

\* the url track with the hints put before the overrides
UrlTrackHintsFirst(id, body) ==
  LET name == Segment(body.url)
      hints == parseFromFilename(name)
  IN [id |-> id, type |-> "url", path |-> NoPath, src |-> body.url,
      title |-> Or(Or(hints.title, Default(body.title)), name),
      artist |-> Or(Or(hints.artist, Default(body.artist)), <<>>),
      album |-> Or(Default(body.album), <<>>),
      genre |-> Or(Or(hints.genre, Default(body.genre)), <<>>),
      duration |-> 0]

\* the track POST /api/music/url makes
UrlTrack(id, body) ==
  LET name == Segment(body.url)
      hints == parseFromFilename(name)
  IN [id |-> id, type |-> "url", path |-> NoPath, src |-> body.url,
      title |-> Or(Or(Default(body.title), hints.title), name),
      artist |-> Or(Or(Default(body.artist), hints.artist), <<>>),
      album |-> Or(Default(body.album), <<>>),
      genre |-> Or(Or(Default(body.genre), hints.genre), <<>>),
      duration |-> 0]

\* the upload loop with the id made once, before the loop
UploadTracksOneId(reqFiles, uuid, mms) ==
  [i \in 1..Len(reqFiles) |-> FileTrack(uuid, reqFiles[i], mms[i])]

\* the tracks the upload loop creates for req.files, ids taken from uuid on
UploadTracks(reqFiles, uuid, mms) ==
  [i \in 1..Len(reqFiles) |-> FileTrack(uuid + i - 1, reqFiles[i], mms[i])]

\* the synchronous part of each handler, on the loaded copy of the store
UploadDb(db, created) == [db EXCEPT !.tracks = @ \o created]

AddUrlDb(db, id, body) == [db EXCEPT !.tracks = Append(@, UrlTrack(id, body))]

\* the deletion without the pass over the playlists
DeleteTrackDbNoCascade(db, id) ==
  [db EXCEPT !.tracks = splice(@, findIndex(@, id))]

DeleteTrackDb(db, id) ==
  [tracks |-> splice(db.tracks, findIndex(db.tracks, id)),
   playlists |-> [p \in DOMAIN db.playlists |->
                    [db.playlists[p] EXCEPT !.trackIds = filter(@, id)]]]

\* the creation with the id taken from the size of the store, not from uuidv4
CreatePlaylistDbCounted(db, id, name) ==
  LET n == Len(db.tracks) + Cardinality(DOMAIN db.playlists) + 1
  IN [db EXCEPT !.playlists =
        (n :> [id |-> n, name |-> trim(name), trackIds |-> <<>>]) @@ @]

CreatePlaylistDb(db, id, name) ==
  [db EXCEPT !.playlists =
     (id :> [id |-> id, name |-> trim(name), trackIds |-> <<>>]) @@ @]

RenamePlaylistDb(db, id, name) ==
  IF id \in DOMAIN db.playlists /\ ~BlankName(name)
  THEN [db EXCEPT !.playlists[id].name = trim(name)]
  ELSE db

DeletePlaylistDb(db, id) ==
  [db EXCEPT !.playlists = [p \in (DOMAIN @) \ {id} |-> @[p]]]

\* the push without the includes test
AddPlaylistTrackDbAlways(db, id, trackId) ==
  [db EXCEPT !.playlists[id].trackIds = Append(@, trackId)]

AddPlaylistTrackDb(db, id, trackId) ==
  IF ~includes(db.playlists[id].trackIds, trackId)
  THEN [db EXCEPT !.playlists[id].trackIds = Append(@, trackId)]
  ELSE db

\* the removal that takes the position indexOf gives it, -1 included
RemovePlaylistTrackDbSplice(db, id, trackId) ==
  LET ids == db.playlists[id].trackIds
      hits == {i \in 1..Len(ids) : ids[i] = trackId}
      idx == IF hits = {} THEN Len(ids) ELSE CHOOSE i \in hits : \A j \in hits : i <= j
  IN [db EXCEPT !.playlists[id].trackIds = splice(@, idx)]

RemovePlaylistTrackDb(db, id, trackId) ==
  [db EXCEPT !.playlists[id].trackIds = filter(@, trackId)]

(***************************************************************************)
(* GET /api/music/stream/:id                                               *)
(***************************************************************************)
BytesEq == <<"b", "y", "t", "e", "s", "=">>

\* no Range header (or an empty one): if (range) is false
NoRange == <<>>

\* range.replace(/bytes=/, '').split('-')
RangeParts(range) == split(RemoveFirst(range, BytesEq), "-")

RangeStart(range) == parseInt(RangeParts(range)[1])

RangeEnd(range, total) ==
  LET parts == RangeParts(range)
  IN IF Len(parts) >= 2 /\ parts[2] # <<>> THEN parseInt(parts[2]) ELSE total - 1

\* (end - start) + 1
Chunk(start, end) == NumAdd(NumSub(end, start), 1)

\* `bytes ${start}-${end}/${total}`
ContentRange(start, end, total) ==
  <<"b", "y", "t", "e", "s", " ">> \o NumToString(start) \o <<"-">>
    \o NumToString(end) \o <<"/">> \o NumToString(total)

\* createReadStream(full, { start, end }) rejects a start or end that is no
\* integer >= 0, and a start beyond end
StreamThrows(start, end) ==
  start = NaN \/ end = NaN \/ start < 0 \/ end < 0 \/ start > end

\* the read that stops before position end
createReadStreamExclusive(data, start, end) ==
  IF StreamThrows(start, end) THEN <<>>
  ELSE SubSeq(data, start + 1, Min(end, Len(data)))

\* the bytes createReadStream(full, { start, end }) delivers: positions
\* start..end of the file, as far as the file goes
createReadStream(data, start, end) ==
  IF StreamThrows(start, end) THEN <<>>
  ELSE SubSeq(data, start + 1, Min(end, Len(data) - 1) + 1)

NoAnswer ==
  [status |-> 0, contentRange |-> <<>>, contentLength |-> NaN, body |-> <<>>,
   threw |-> FALSE]

Status(code) == [NoAnswer EXCEPT !.status = code]

\* the handler threw: the request gets no answer from it
Threw == [NoAnswer EXCEPT !.threw = TRUE]

\* the checks without the test of the track's type
StreamRefusalNoType(db, dir, id) ==
  LET idx == findIndex(db.tracks, id)
  IN IF idx = 0 THEN 404
     ELSE IF db.tracks[idx].path \notin DOMAIN dir THEN 404
     ELSE 0

\* the checks before the file is read: 404 without the track, 400 for a
\* track that is no file, 404 when statSync fails, 0 to go on
StreamRefusal(db, dir, id) ==
  LET idx == findIndex(db.tracks, id)
      t == db.tracks[idx]
  IN IF idx = 0 THEN 404
     ELSE IF t.type # "file" THEN 400
     ELSE IF t.path \notin DOMAIN dir THEN 404
     ELSE 0

\* if (range) { ... }: the 206 answer for the file's bytes data
RangeAnswer(data, range) ==
  LET total == Len(data)
      start == RangeStart(range)
      end == RangeEnd(range, total)
  IN [status |-> 206,
      contentRange |-> ContentRange(start, end, total),
      contentLength |-> Chunk(start, end),
      body |-> createReadStream(data, start, end),
      threw |-> StreamThrows(start, end)]

\* the 200 answer that declares the last position as the length
FullAnswerShort(data) ==
  [status |-> 200, contentRange |-> <<>>, contentLength |-> Len(data) - 1,
   body |-> data, threw |-> FALSE]

\* else { ... }: the 200 answer
FullAnswer(data) ==
  [status |-> 200, contentRange |-> <<>>, contentLength |-> Len(data),
   body |-> data, threw |-> FALSE]

\* the answer of the stream handler for the loaded store db, the upload
\* directory dir and the Range header range
StreamAnswer(db, dir, id, range) ==
  LET refusal == StreamRefusal(db, dir, id)
      data == dir[db.tracks[findIndex(db.tracks, id)].path]
  IN IF refusal # 0 THEN Status(refusal)
     ELSE IF range # NoRange THEN RangeAnswer(data, range)
     ELSE FullAnswer(data)

(***************************************************************************)
(* Requests.  reqs[r] is a handler between two awaits.  res is the answer   *)
(* the running callback has produced, with the request it answers, the     *)
(* store that request loaded (db0) and its copy of the store when it       *)
(* answered (db) and the document that was persisted when its last step     *)
(* began (prev); the callback ends by sending it (Sent) before the event   *)
(* loop runs another one.                                                  *)
(***************************************************************************)
\* req.body.trackId: the id of a stored track or of a track a stored playlist
\* holds, or an id that is no track's (0 is never handed out)
BodyIds ==
  LET db == readDB(dbFile)
  IN {0} \cup TrackIdsOf(db.tracks)
         \cup UNION {TrackIdsOf([i \in DOMAIN db.playlists[p].trackIds |->
                                   [id |-> db.playlists[p].trackIds[i]]]) :
                       p \in DOMAIN db.playlists}

\* path parameters that name a track: the same, or an inherited key
PathIds == BodyIds \cup {ProtoKey}

\* path parameters that name a playlist: the id of a stored playlist, an id
\* that is no playlist's, or an inherited key
PlaylistIds == {0, ProtoKey} \cup DOMAIN readDB(dbFile).playlists

RangeOf(start, end) == BytesEq \o NumToString(start) \o <<"-">> \o NumToString(end)

RangeFrom(start) == BytesEq \o NumToString(start) \o <<"-">>

\* Range headers of the model: none, bytes=s-e, bytes=s-, bytes=-n, bytes=01-02,
\* bytes=0-10 and a header of another unit
RangeHeaders ==
  {NoRange}
    \cup {RangeOf(a, b) : a \in 0..3, b \in 0..3}
    \cup {RangeFrom(a) : a \in 0..3}
    \cup {BytesEq \o <<"-", "1">>,
          BytesEq \o <<"0", "1", "-", "0", "2">>,
          RangeOf(0, 10),
          <<"x", "=", "0", "-", "1">>}

\* the Range headers of requests that run beside other requests: none, one
\* inside every file but the empty one, one past the end of every file
SomeRangeHeaders == {NoRange, RangeOf(0, 0), RangeOf(0, 10)}

Idle ==
  [op |-> "none", pc |-> "idle", id |-> NoId, trackId |-> NoId, name |-> <<>>,
   url |-> <<>>, files |-> <<>>, db0 |-> EmptyDB, db |-> EmptyDB, t |-> NoTrack,
   created |-> <<>>, unlinkFailed |-> FALSE, body |-> UrlBody(<<>>),
   segment |-> <<>>, hints |-> [title |-> <<>>, artist |-> <<>>, genre |-> <<>>]]

Reply(q, range, saved, answer, prev) ==
  [op |-> q.op, id |-> q.id, trackId |-> q.trackId, name |-> q.name, url |-> q.url,
   files |-> q.files, db0 |-> q.db0, db |-> q.db, t |-> q.t, tracks |-> q.created,
   range |-> range, saved |-> saved, status |-> answer.status,
   contentRange |-> answer.contentRange, contentLength |-> answer.contentLength,
   body |-> answer.body, threw |-> answer.threw, unlinkFailed |-> q.unlinkFailed,
   reqBody |-> q.body, segment |-> q.segment, hints |-> q.hints, prev |-> prev]

NoRes == Reply(Idle, NoRange, FALSE, NoAnswer, NoDoc)

\* what an earlier run of the server has left in db.json and uploads/: two
\* uploaded files (one of them empty), a stream url and two playlists
SeedFiles ==
  (filename(0, <<"b">>) :> <<65, 66, 67, 68>>) @@ (filename(0, <<"c">>) :> <<>>)

SeedDoc ==
  writeDB([tracks |->
             <<FileTrack(1, [originalname |-> <<"b">>, filename |-> filename(0, <<"b">>)],
                         MmFailed),
               UrlTrack(2, UrlBody(<<"h", "/", "s">>)),
               FileTrack(3, [originalname |-> <<"c">>, filename |-> filename(0, <<"c">>)],
                         MmTags)>>,
           playlists |->
             (4 :> [id |-> 4, name |-> <<"Q">>, trackIds |-> <<3, 1, 2>>])
               @@ (5 :> [id |-> 5, name |-> <<"R">>, trackIds |-> <<2>>])])

\* audio.src of the page: nothing, the stream route of a file track, or the
\* location of a url track
NoSrc == [kind |-> "none", id |-> NoId, url |-> <<>>]

\* the page as loaded: const state = {...}, the audio element without a source
StateLoaded == [tracks |-> <<>>, queue |-> <<>>, currentIndex |-> -1, playlists |-> <<>>]

AudioLoaded == [src |-> NoSrc, paused |-> TRUE]

\* no callback of the page is running
NoCall == [op |-> "none", pc |-> "idle", id |-> NoId, nothing |-> TRUE, start |-> -1]

\* the server starts on a fresh install, or on what an earlier run left
Init ==
  /\ state = StateLoaded
  /\ audio = AudioLoaded
  /\ call = NoCall
  /\ \/ dbFile = NoDoc /\ files = <<>> /\ nextId = 1
     \/ dbFile = SeedDoc /\ files = SeedFiles /\ nextId = 6
  /\ reqs = [r \in Slots |-> Idle]
  /\ res = NoRes
  /\ now = 0
  /\ started = 0

\* a request arrives and its handler starts in slot r, the first free one
Arrive(r) ==
  /\ started < MaxReqs
  /\ reqs[r].pc = "idle"
  /\ \A s \in Slots : s < r => reqs[s].pc # "idle"
  /\ res = NoRes
  /\ started' = started + 1

\* the callback that answered returns to the event loop
Sent ==
  /\ res # NoRes
  /\ res' = NoRes
  /\ UNCHANGED <<dbFile, files, reqs, nextId, now, started, page>>

\* Date.now() moves on; only multer reads it, so the model lets it move
\* while an upload is being stored
Tick ==
  /\ now < MaxClock
  /\ \E r \in Slots : reqs[r].pc = "multer"
  /\ res = NoRes
  /\ now' = now + 1
  /\ res' = NoRes
  /\ UNCHANGED <<dbFile, files, reqs, nextId, started, page>>

\* an answer sent without saving: the request is over
Answer(r, q, range, answer) ==
  /\ res = NoRes
  /\ res' = Reply(q, range, FALSE, answer, dbFile)
  /\ reqs' = [reqs EXCEPT ![r] = Idle]
  /\ UNCHANGED page

\* the handler goes on to its next await
Await(r, q) ==
  /\ res = NoRes
  /\ reqs' = [reqs EXCEPT ![r] = q]
  /\ res' = NoRes
  /\ UNCHANGED page

\* await writeDB(db); res.json({ ok: true, ... })
Save(r) ==
  /\ reqs[r].pc = "save"
  /\ res = NoRes
  /\ dbFile' = writeDB(reqs[r].db)
  /\ res' = Reply(reqs[r], NoRange, TRUE, Status(200), dbFile)
  /\ reqs' = [reqs EXCEPT ![r] = Idle]
  /\ UNCHANGED <<files, nextId, now, started, page>>

\* POST /api/music/upload arrives: multer starts on the multipart body
UploadBegin(r) ==
  /\ Arrive(r)
  /\ Await(r, [Idle EXCEPT !.op = "upload", !.pc = "multer"])
  /\ UNCHANGED <<dbFile, files, nextId, now>>

\* multer stores one more file of the request under UPLOAD_DIR
MulterStore(r, originalname, data) ==
  LET q == reqs[r]
      fn == filename(now, originalname)
  IN /\ q.pc = "multer"
     /\ UNCHANGED started
     /\ Len(q.files) < Min(MaxBatch, MaxUploadFiles)
     /\ files' = (fn :> data) @@ files
     /\ Await(r, [q EXCEPT !.files =
                    Append(@, [originalname |-> originalname, filename |-> fn])])
     /\ UNCHANGED <<dbFile, nextId, now>>

\* the upload handler: readDB, then one track per file
Upload(r, mms) ==
  LET q == reqs[r]
      db == readDB(dbFile)
      created == UploadTracks(q.files, nextId, mms)
  IN /\ q.pc = "multer"
     /\ DOMAIN mms = 1..Len(q.files)
     /\ UNCHANGED started
     /\ nextId' = nextId + Len(q.files)
     /\ Await(r, [q EXCEPT !.pc = "save", !.db0 = db, !.created = created,
                           !.db = UploadDb(db, created)])
     /\ UNCHANGED <<dbFile, files, now>>

\* POST /api/music/url
AddUrl(r, body) ==
  LET db == readDB(dbFile)
      q == [Idle EXCEPT !.op = "addUrl", !.url = body.url, !.body = body]
  IN /\ Arrive(r)
     /\ IF Falsy(body.url)
        THEN /\ Answer(r, q, NoRange, Status(400))
             /\ UNCHANGED nextId
        ELSE /\ nextId' = nextId + 1
             /\ Await(r, [q EXCEPT !.pc = "save", !.db0 = db,
                                   !.segment = Segment(body.url),
                                   !.hints = parseFromFilename(Segment(body.url)),
                                   !.created = <<UrlTrack(nextId, body)>>,
                                   !.db = AddUrlDb(db, nextId, body)])
     /\ UNCHANGED <<dbFile, files, now>>

\* DELETE /api/music/:id, up to its first await after readDB
DeleteTrack(r, id) ==
  LET db == readDB(dbFile)
      idx == findIndex(db.tracks, id)
      t == db.tracks[idx]
      q == [Idle EXCEPT !.op = "deleteTrack", !.id = id, !.db0 = db, !.db = db]
  IN /\ Arrive(r)
     /\ IF idx = 0
        THEN Answer(r, q, NoRange, Status(404))
        ELSE Await(r, [q EXCEPT !.t = t, !.db = DeleteTrackDb(db, id),
                                !.pc = IF t.type = "file" /\ t.path # NoPath
                                       THEN "unlink" ELSE "save"])
     /\ UNCHANGED <<dbFile, files, nextId, now>>

\* await fs.unlink(full) without the try: a rejection ends the handler
UnlinkNoCatch(r, removed) ==
  LET q == reqs[r]
  IN /\ q.pc = "unlink"
     /\ UNCHANGED started
     /\ removed => q.t.path \in DOMAIN files
     /\ files' = IF removed THEN [f \in (DOMAIN files) \ {q.t.path} |-> files[f]]
                 ELSE files
     /\ IF removed
        THEN Await(r, [q EXCEPT !.pc = "save"])
        ELSE Answer(r, [q EXCEPT !.unlinkFailed = TRUE], NoRange, Threw)
     /\ UNCHANGED <<dbFile, nextId, now>>

\* try { await fs.unlink(full) } catch(e){}: the file is removed, or unlink
\* rejects (the file is not there, or the system refuses) and the rejection
\* is dropped
Unlink(r, removed) ==
  LET q == reqs[r]
  IN /\ q.pc = "unlink"
     /\ UNCHANGED started
     /\ removed => q.t.path \in DOMAIN files
     /\ files' = IF removed THEN [f \in (DOMAIN files) \ {q.t.path} |-> files[f]]
                 ELSE files
     /\ Await(r, [q EXCEPT !.pc = "save", !.unlinkFailed = ~removed])
     /\ UNCHANGED <<dbFile, nextId, now>>

\* GET /api/music/stream/:id: await readDB()
StreamLoad(r, id) ==
  /\ Arrive(r)
  /\ Await(r, [Idle EXCEPT !.op = "stream", !.id = id, !.pc = "stream",
                           !.db0 = readDB(dbFile), !.db = readDB(dbFile)])
  /\ UNCHANGED <<dbFile, files, nextId, now>>

\* the rest of the stream handler
Stream(r, range) ==
  LET q == reqs[r]
  IN /\ q.pc = "stream"
     /\ UNCHANGED started
     /\ Answer(r, q, range, StreamAnswer(q.db, files, q.id, range))
     /\ UNCHANGED <<dbFile, files, nextId, now>>

\* POST /api/playlists
CreatePlaylist(r, name) ==
  LET db == readDB(dbFile)
      q == [Idle EXCEPT !.op = "createPlaylist", !.name = name]
  IN /\ Arrive(r)
     /\ IF BlankName(name)
        THEN /\ Answer(r, q, NoRange, Status(400))
             /\ UNCHANGED nextId
        ELSE /\ nextId' = nextId + 1
             /\ Await(r, [q EXCEPT !.pc = "save", !.id = nextId, !.db0 = db,
                                   !.db = CreatePlaylistDb(db, nextId, name)])
     /\ UNCHANGED <<dbFile, files, now>>

\* PUT /api/playlists/:id.  An inherited pl is a function, whose name cannot
\* be assigned in module code: the assignment throws
RenamePlaylist(r, id, name) ==
  LET db == readDB(dbFile)
      pl == lookup(db.playlists, id)
      q == [Idle EXCEPT !.op = "renamePlaylist", !.id = id, !.name = name,
                        !.db0 = db, !.db = db]
  IN /\ Arrive(r)
     /\ IF pl = "undefined" THEN Answer(r, q, NoRange, Status(404))
        ELSE IF pl = "inherited" /\ ~BlankName(name)
        THEN Answer(r, q, NoRange, Threw)
        ELSE Await(r, [q EXCEPT !.pc = "save", !.db = RenamePlaylistDb(db, id, name)])
     /\ UNCHANGED <<dbFile, files, nextId, now>>

\* DELETE /api/playlists/:id
DeletePlaylist(r, id) ==
  LET db == readDB(dbFile)
      q == [Idle EXCEPT !.op = "deletePlaylist", !.id = id, !.db0 = db, !.db = db]
  IN /\ Arrive(r)
     /\ IF lookup(db.playlists, id) = "undefined"
        THEN Answer(r, q, NoRange, Status(404))
        ELSE Await(r, [q EXCEPT !.pc = "save", !.db = DeletePlaylistDb(db, id)])
     /\ UNCHANGED <<dbFile, files, nextId, now>>

\* POST /api/playlists/:id/tracks.  An inherited pl has no trackIds:
\* pl.trackIds.includes throws
AddPlaylistTrack(r, id, trackId) ==
  LET db == readDB(dbFile)
      pl == lookup(db.playlists, id)
      q == [Idle EXCEPT !.op = "addPlaylistTrack", !.id = id, !.trackId = trackId,
                        !.db0 = db, !.db = db]
  IN /\ Arrive(r)
     /\ IF pl = "undefined" THEN Answer(r, q, NoRange, Status(404))
        ELSE IF findIndex(db.tracks, trackId) = 0 THEN Answer(r, q, NoRange, Status(400))
        ELSE IF pl = "inherited" THEN Answer(r, q, NoRange, Threw)
        ELSE Await(r, [q EXCEPT !.pc = "save",
                                !.db = AddPlaylistTrackDb(db, id, trackId)])
     /\ UNCHANGED <<dbFile, files, nextId, now>>

\* DELETE /api/playlists/:id/tracks/:trackId.  An inherited pl has no
\* trackIds: pl.trackIds.filter throws
RemovePlaylistTrack(r, id, trackId) ==
  LET db == readDB(dbFile)
      pl == lookup(db.playlists, id)
      q == [Idle EXCEPT !.op = "removePlaylistTrack", !.id = id,
                        !.trackId = trackId, !.db0 = db, !.db = db]
  IN /\ Arrive(r)
     /\ IF pl = "undefined" THEN Answer(r, q, NoRange, Status(404))
        ELSE IF pl = "inherited" THEN Answer(r, q, NoRange, Threw)
        ELSE Await(r, [q EXCEPT !.pc = "save",
                                !.db = RemovePlaylistTrackDb(db, id, trackId)])
     /\ UNCHANGED <<dbFile, files, nextId, now>>

Next ==
  \/ Sent
  \/ Tick
  \/ \E r \in Slots : Save(r)
  \/ \E r \in Slots : UploadBegin(r)
  \/ \E r \in Slots, o \in OriginalNames, d \in Contents : MulterStore(r, o, d)
  \/ \E r \in Slots, n \in 0..MaxBatch : \E mms \in [1..n -> MmResults] : Upload(r, mms)
  \/ \E r \in Slots, u \in Urls : AddUrl(r, UrlBody(u))
  \/ \E r \in Slots, i \in PathIds : DeleteTrack(r, i)
  \/ \E r \in Slots, removed \in BOOLEAN : Unlink(r, removed)
  \/ \E r \in Slots, i \in PathIds : StreamLoad(r, i)
  \/ \E r \in Slots, h \in SomeRangeHeaders : Stream(r, h)
  \/ \E r \in Slots, n \in Names : CreatePlaylist(r, n)
  \/ \E r \in Slots, i \in PlaylistIds, n \in Names : RenamePlaylist(r, i, n)
  \/ \E r \in Slots, i \in PlaylistIds : DeletePlaylist(r, i)
  \/ \E r \in Slots, i \in PlaylistIds, t \in BodyIds : AddPlaylistTrack(r, i, t)
  \/ \E r \in Slots, i \in PlaylistIds, t \in PathIds : RemovePlaylistTrack(r, i, t)

Spec == Init /\ [][Next]_vars

(***************************************************************************)
(* POST /api/music/url alone, over many urls and bodies.                   *)
(***************************************************************************)
MaxNameLen == 4

MaxPieces == 4

NameChars == {"a", "-", " ", "[", "]", ".", "/"}

NamePieces == {<<"A">>, <<"-">>, <<" ">>, <<"[", "G", "]">>, <<"[", " ", "H", "]">>, <<".", "x">>}

RECURSIVE Flatten(_)
Flatten(ss) == IF ss = <<>> THEN <<>> ELSE Head(ss) \o Flatten(Tail(ss))

DaftPunkUrl ==
  <<"h", "/", "D", "a", "f", "t", " ", "P", "u", "n", "k", " ", "-", " ", "O", "n", "e", " ", "M", "o", "r", "e", " ", "T", "i", "m", "e", " ", "[", "D", "a", "n", "c", "e", "]", ".", "m", "p", "3">>

\* the urls of the bodies without overrides: every string of NameChars up to
\* MaxNameLen, every string of up to MaxPieces of NamePieces, and some others
UrlNames ==
  UNION {[1..n -> NameChars] : n \in 1..MaxNameLen}
    \cup {Flatten(ps) : ps \in UNION {[1..n -> NamePieces] : n \in 1..MaxPieces}}
    \cup {DaftPunkUrl, <<"a", "\n", "b", "-", "c">>, <<"a", "-", "b", "\n", "c">>, <<"a", " ", "-", " ", "b", "\n", "[", "c", "]">>}

Overrides == {undefined, <<>>, <<"X">>}

\* the bodies with overrides, over urls whose last segment hints at all of,
\* some of or none of title, artist and genre
OverrideBodies ==
  {[url |-> u, title |-> t, artist |-> a, album |-> l, genre |-> g] :
     u \in {<<"h", "/", "A", "-", "T", "[", "G", "]">>, <<"h", "/", "T">>, <<"h", "/">>},
     t \in Overrides, a \in Overrides, l \in Overrides, g \in Overrides}

UrlBodies == {UrlBody(u) : u \in UrlNames \cup {undefined, <<>>}} \cup OverrideBodies

\* one POST /api/music/url, on a fresh install or on what an earlier run left
NextUrl ==
  \/ Sent
  \/ Save(1)
  \/ started = 0 /\ \E b \in UrlBodies : AddUrl(1, b)

SpecUrl == Init /\ [][NextUrl]_vars

(***************************************************************************)
(* GET /api/music/stream/:id alone, over every Range header of the model.  *)
(***************************************************************************)
NextStream ==
  \/ Sent
  \/ started = 0 /\ \E i \in PathIds : StreamLoad(1, i)
  \/ \E h \in RangeHeaders : Stream(1, h)

SpecStream == Init /\ [][NextStream]_vars

(***************************************************************************)
(* The page (public/app.js): queue and playback.  An event handler runs    *)
(* to its end before the next event; call is the handler that runs, with   *)
(* the track it was given (id), whether no entry of the queue was current  *)
(* when it began (nothing) and state.currentIndex when it first called     *)
(* playCurrent (start).  pc is "playCurrent"                               *)
(* while a call of playCurrent is to be made and "done" when the handler   *)
(* has returned; Return takes the page back to the event loop.             *)
(***************************************************************************)
MaxQueue == 3

\* what GET /api/music may answer: the tracks of the seeded store, or some of
\* them (others were deleted, or not yet uploaded): none, the url track, the
\* file tracks, or all
Libraries ==
  {SelectSeq(SeedDoc.tracks, LAMBDA t : t.id \in keep) :
     keep \in {{}, {2}, {1, 3}, {1, 2, 3}}}

\* what GET /api/playlists may answer: nothing, or the playlists of the seeded
\* store and a new one without tracks
PlaylistMaps ==
  {<<>>,
   (6 :> [id |-> 6, name |-> <<"P">>, trackIds |-> <<>>]) @@ SeedDoc.playlists}

\* state.tracks.find(t => t.id === id), NoTrack for undefined
getTrackById(id) ==
  IF findIndex(state.tracks, id) = 0 THEN NoTrack
  ELSE state.tracks[findIndex(state.tracks, id)]

trackToSrc(t) ==
  IF t.type = "file" THEN [kind |-> "stream", id |-> t.id, url |-> <<>>]
  ELSE IF t.type = "url" THEN [kind |-> "url", id |-> NoId, url |-> t.src]
  ELSE NoSrc

\* queue.splice(at, 0, id), at counted from 0 and clamped to the length
Insert(queue, at, id) ==
  LET k == Min(at, Len(queue))
  IN SubSeq(queue, 1, k) \o <<id>> \o SubSeq(queue, k + 1, Len(queue))

\* a handler begins
Begin(op, id) ==
  [op |-> op, pc |-> "done", id |-> id, start |-> -1,
   nothing |-> state.currentIndex < 0 \/ state.currentIndex >= Len(state.queue)]

\* a handler ends with a call of playCurrent() on the index it has set
ThenPlayCurrent(c, index) == [c EXCEPT !.pc = "playCurrent", !.start = index]

\* the handler that ran has returned to the event loop
Return ==
  /\ call.pc = "done"
  /\ call' = NoCall
  /\ UNCHANGED <<server, state, audio>>

\* refreshTracks(): state.tracks = res.tracks || []
RefreshTracks(tracks) ==
  /\ call = NoCall
  /\ state' = [state EXCEPT !.tracks = tracks]
  /\ call' = Begin("refreshTracks", NoId)
  /\ UNCHANGED <<server, audio>>

\* refreshPlaylists(): state.playlists = res.playlists || {}
RefreshPlaylists(playlists) ==
  /\ call = NoCall
  /\ state' = [state EXCEPT !.playlists = playlists]
  /\ call' = Begin("refreshPlaylists", NoId)
  /\ UNCHANGED <<server, audio>>

\* the queue button of a track of the list: enqueueTrack(t.id)
Enqueue(id) ==
  /\ call = NoCall
  /\ id \in TrackIdsOf(state.tracks)
  /\ Len(state.queue) < MaxQueue
  /\ state' = [state EXCEPT !.queue = Append(@, id),
                            !.currentIndex = IF @ = -1 THEN 0 ELSE @]
  /\ call' = IF state.currentIndex = -1 THEN ThenPlayCurrent(Begin("enqueue", id), 0)
             ELSE Begin("enqueue", id)
  /\ UNCHANGED <<server, audio>>

\* a click on a track of the list: enqueueTrack(t.id, { playNow: true })
EnqueuePlayNow(id) ==
  /\ call = NoCall
  /\ id \in TrackIdsOf(state.tracks)
  /\ Len(state.queue) < MaxQueue
  /\ state' = IF state.currentIndex = -1
              THEN [state EXCEPT !.queue = <<id>>, !.currentIndex = 0]
              ELSE [state EXCEPT !.queue = Insert(@, state.currentIndex + 1, id),
                                 !.currentIndex = @ + 1]
  /\ call' = ThenPlayCurrent(Begin("enqueuePlayNow", id),
                             IF state.currentIndex = -1 THEN 0 ELSE state.currentIndex + 1)
  /\ UNCHANGED <<server, audio>>

\* the entries of the queue that renderQueue shows, counted from 0
Rendered == {idx \in 0..(Len(state.queue) - 1) : getTrackById(state.queue[idx + 1]) # NoTrack}

\* the play button of an entry of the queue
QueuePlay(idx) ==
  /\ call = NoCall
  /\ idx \in Rendered
  /\ state' = [state EXCEPT !.currentIndex = idx]
  /\ call' = ThenPlayCurrent(Begin("queuePlay", state.queue[idx + 1]), idx)
  /\ UNCHANGED <<server, audio>>

\* the remove button of an entry of the queue
QueueRemove(idx) ==
  /\ call = NoCall
  /\ idx \in Rendered
  /\ state' = [state EXCEPT !.queue = splice(@, idx + 1),
                            !.currentIndex = IF idx = @ THEN -1
                                             ELSE IF idx < @ THEN @ - 1 ELSE @]
  /\ audio' = IF idx = state.currentIndex THEN [audio EXCEPT !.paused = TRUE] ELSE audio
  /\ call' = Begin("queueRemove", state.queue[idx + 1])
  /\ UNCHANGED server

\* the play button of a playlist
PlayPlaylist(p) ==
  /\ call = NoCall
  /\ p \in DOMAIN state.playlists
  /\ state' = [state EXCEPT !.queue = state.playlists[p].trackIds, !.currentIndex = 0]
  /\ call' = ThenPlayCurrent(Begin("playPlaylist", NoId), 0)
  /\ UNCHANGED <<server, audio>>

\* the clear button of the queue
ClearQueue ==
  /\ call = NoCall
  /\ state' = [state EXCEPT !.queue = <<>>, !.currentIndex = -1]
  /\ audio' = [audio EXCEPT !.paused = TRUE]
  /\ call' = Begin("clearQueue", NoId)
  /\ UNCHANGED server

\* next(), as it changes state and audio and whether it calls playCurrent()
NextTrack(c) ==
  IF state.currentIndex < Len(state.queue) - 1
  THEN /\ state' = [state EXCEPT !.currentIndex = @ + 1]
       /\ call' = [c EXCEPT !.pc = "playCurrent"]
       /\ UNCHANGED audio
  ELSE /\ audio' = [audio EXCEPT !.paused = TRUE]
       /\ call' = [c EXCEPT !.pc = "done"]
       /\ UNCHANGED state

\* the next button, or the audio element's ended event
NextButton(ended) ==
  /\ call = NoCall
  /\ ended => ~audio.paused
  /\ NextTrack([Begin(IF ended THEN "ended" ELSE "next", NoId)
                  EXCEPT !.start = state.currentIndex + 1])
  /\ UNCHANGED server

\* the prev button; late is audio.currentTime > 3
PrevButton(late) ==
  /\ call = NoCall
  /\ late => audio.src # NoSrc
  /\ IF ~late /\ state.currentIndex > 0
     THEN /\ state' = [state EXCEPT !.currentIndex = @ - 1]
          /\ call' = ThenPlayCurrent(Begin("prev", NoId), state.currentIndex - 1)
     ELSE /\ call' = Begin("prev", NoId)
          /\ UNCHANGED state
  /\ UNCHANGED <<server, audio>>

\* the play/pause button; played is whether audio.play() starts playback
PlayPause(played) ==
  /\ call = NoCall
  /\ played => audio.src # NoSrc
  /\ audio' = [audio EXCEPT !.paused = IF @ THEN ~played ELSE TRUE]
  /\ call' = Begin("playPause", NoId)
  /\ UNCHANGED <<server, state>>

\* playCurrent() without the test of the index against the queue's length
PlayCurrentUnguarded(played) ==
  LET idx == state.currentIndex
      track == IF idx + 1 \in 1..Len(state.queue) THEN getTrackById(state.queue[idx + 1])
               ELSE NoTrack
  IN /\ call.pc = "playCurrent"
     /\ IF idx < 0
        THEN /\ audio' = [audio EXCEPT !.paused = TRUE]
             /\ call' = [call EXCEPT !.pc = "done"]
             /\ UNCHANGED state
        ELSE IF track = NoTrack
        THEN /\ state' = [state EXCEPT !.currentIndex = @ + 1]
             /\ call' = [call EXCEPT !.pc = "playCurrent"]
             /\ UNCHANGED audio
        ELSE /\ audio' = [src |-> trackToSrc(track), paused |-> ~played]
             /\ call' = [call EXCEPT !.pc = "done"]
             /\ UNCHANGED state
     /\ UNCHANGED server

\* one call of playCurrent(); played is whether audio.play() starts playback
PlayCurrent(played) ==
  LET idx == state.currentIndex
      track == getTrackById(state.queue[idx + 1])
  IN /\ call.pc = "playCurrent"
     /\ IF idx < 0 \/ idx >= Len(state.queue)
        THEN /\ audio' = [audio EXCEPT !.paused = TRUE]
             /\ call' = [call EXCEPT !.pc = "done"]
             /\ UNCHANGED state
        ELSE IF track = NoTrack
        THEN NextTrack(call)
        ELSE /\ audio' = [src |-> trackToSrc(track), paused |-> ~played]
             /\ call' = [call EXCEPT !.pc = "done"]
             /\ UNCHANGED state
     /\ UNCHANGED server

NextPage ==
  \/ Return
  \/ \E tracks \in Libraries : RefreshTracks(tracks)
  \/ \E playlists \in PlaylistMaps : RefreshPlaylists(playlists)
  \/ \E id \in 1..3 : Enqueue(id)
  \/ \E id \in 1..3 : EnqueuePlayNow(id)
  \/ \E idx \in 0..(MaxQueue - 1) : QueuePlay(idx)
  \/ \E idx \in 0..(MaxQueue - 1) : QueueRemove(idx)
  \/ \E p \in 4..6 : PlayPlaylist(p)
  \/ ClearQueue
  \/ \E ended \in BOOLEAN : NextButton(ended)
  \/ \E late \in BOOLEAN : PrevButton(late)
  \/ \E played \in BOOLEAN : PlayPause(played)
  \/ \E played \in BOOLEAN : PlayCurrent(played)

\* the page is loaded from a server on a fresh install
InitPage == Init /\ dbFile = NoDoc

SpecPage == InitPage /\ [][NextPage]_vars

\* a handler that has begun runs to its end
FairPage == SpecPage /\ WF_vars(\E played \in BOOLEAN : PlayCurrent(played)) /\ WF_vars(Return)

(***************************************************************************)
(* Properties.                                                             *)
(***************************************************************************)
\* seq without every occurrence of x, the rest in order
RECURSIVE Without(_, _)
Without(seq, x) ==
  IF seq = <<>> THEN <<>>
  ELSE IF Head(seq) = x THEN Without(Tail(seq), x)
  ELSE <<Head(seq)>> \o Without(Tail(seq), x)

\* no value occurs twice in seq
Distinct(seq) == \A i, j \in 1..Len(seq) : seq[i] = seq[j] => i = j

\* the track with this id in a store
TrackOf(db, id) == db.tracks[findIndex(db.tracks, id)]

\* C1: in every persisted store, whatever the interleaving of the requests
\* that wrote it, every id in every playlist's trackIds is the id of a track
\* of the store.
ReferentialIntegrity ==
  \A p \in DOMAIN dbFile.playlists :
    \A i \in 1..Len(dbFile.playlists[p].trackIds) :
      dbFile.playlists[p].trackIds[i] \in TrackIdsOf(dbFile.tracks)

\* C1 witness: an add to a playlist saved after a concurrent deletion of the
\* same track had removed the track's file: the store it saves has the id in
\* the playlist, and the track again.
ReferentialIntegrityWitness ==
  /\ res.op = "addPlaylistTrack"
  /\ res.saved
  /\ ~includes(res.db0.playlists[res.id].trackIds, res.trackId)
  /\ includes(dbFile.playlists[res.id].trackIds, res.trackId)
  /\ TrackOf(res.db0, res.trackId).type = "file"
  /\ TrackOf(res.db0, res.trackId).path \notin DOMAIN files

\* C2: when DELETE /api/music/:id answers ok, the store it saved has no track
\* with that id and no playlist naming it, and is otherwise the store the
\* request loaded: the other tracks in order, every playlist with its name
\* and its other entries in order.
DeleteTrackSaves ==
  (res.op = "deleteTrack" /\ res.status = 200) =>
    /\ res.saved /\ dbFile.ok
    /\ res.id \notin TrackIdsOf(dbFile.tracks)
    /\ \A p \in DOMAIN dbFile.playlists :
         ~includes(dbFile.playlists[p].trackIds, res.id)
    /\ Len(dbFile.tracks) = Len(res.db0.tracks) - 1
    /\ \A i \in 1..Len(dbFile.tracks) :
         dbFile.tracks[i] =
           res.db0.tracks[IF i < findIndex(res.db0.tracks, res.id) THEN i ELSE i + 1]
    /\ DOMAIN dbFile.playlists = DOMAIN res.db0.playlists
    /\ \A p \in DOMAIN dbFile.playlists :
         /\ dbFile.playlists[p].id = res.db0.playlists[p].id
         /\ dbFile.playlists[p].name = res.db0.playlists[p].name
         /\ dbFile.playlists[p].trackIds = Without(res.db0.playlists[p].trackIds, res.id)

\* C2 witness: a deletion answered ok of a track that was neither first nor
\* last in a playlist of three, beside another playlist.
DeleteTrackSavesWitness ==
  /\ res.op = "deleteTrack" /\ res.status = 200
  /\ \E p \in DOMAIN res.db0.playlists :
       /\ Len(res.db0.playlists[p].trackIds) = 3
       /\ res.db0.playlists[p].trackIds[2] = res.id
  /\ Len(res.db0.tracks) >= 3
  /\ Cardinality(DOMAIN res.db0.playlists) >= 2

\* C3: adding a track a playlist already has answers ok and saves the
\* playlist as it was loaded, and no playlist of a persisted store names a
\* track twice.
DuplicateFree ==
  /\ \A p \in DOMAIN dbFile.playlists : Distinct(dbFile.playlists[p].trackIds)
  /\ (/\ res.op = "addPlaylistTrack"
      /\ res.id \in DOMAIN res.db0.playlists
      /\ includes(res.db0.playlists[res.id].trackIds, res.trackId)) =>
       /\ res.status = 200 /\ res.saved
       /\ dbFile = writeDB(res.db0)

\* C3 witness: an add of a track the loaded playlist already had, answered ok.
DuplicateFreeWitness ==
  /\ res.op = "addPlaylistTrack" /\ res.status = 200
  /\ includes(res.db0.playlists[res.id].trackIds, res.trackId)
  /\ Len(res.db0.playlists[res.id].trackIds) >= 2

\* C4: every track of kind file in the persisted store names a file that is
\* in the upload directory, in every state.
FileTracksHaveFiles ==
  \A i \in 1..Len(dbFile.tracks) :
    dbFile.tracks[i].type = "file" => dbFile.tracks[i].path \in DOMAIN files

\* the stream request answered names a file track of the store it loaded,
\* and the track's file is in the upload directory
StreamedHasFile ==
  /\ res.op = "stream"
  /\ res.id \in TrackIdsOf(res.db0.tracks)
  /\ TrackOf(res.db0, res.id).type = "file"
  /\ TrackOf(res.db0, res.id).path \in DOMAIN files

StreamedData == files[TrackOf(res.db0, res.id).path]

Digit(n) == DigitChars[n + 1]

\* C5: for a file track whose file has total bytes, Range: bytes=start-end
\* with 0 <= start <= end < total is answered 206 with Content-Range
\* 'bytes start-end/total', Content-Length end-start+1 and the bytes
\* start..end of the file as body (leading zeros in the header included).
RangeWithinFile ==
  \A a, b \in 0..9 :
    (/\ StreamedHasFile
     /\ a <= b /\ b < Len(StreamedData)
     /\ res.range \in {BytesEq \o <<Digit(a), "-", Digit(b)>>,
                       BytesEq \o <<"0", Digit(a), "-", "0", Digit(b)>>}) =>
      /\ res.status = 206
      /\ res.contentRange =
           <<"b", "y", "t", "e", "s", " ", Digit(a), "-", Digit(b), "/",
             Digit(Len(StreamedData))>>
      /\ res.contentLength = b - a + 1
      /\ Len(res.body) = b - a + 1
      /\ \A i \in 1..(b - a + 1) : res.body[i] = StreamedData[a + i]
      /\ ~res.threw

\* C5 witness: bytes=1-2 of a file of four bytes answered with two bytes.
RangeWithinFileWitness ==
  /\ StreamedHasFile
  /\ Len(StreamedData) = 4
  /\ res.range = <<"b", "y", "t", "e", "s", "=", "1", "-", "2">>
  /\ res.status = 206
  /\ res.body = <<66, 67>>

\* C6: for a Range header bytes=start-end or bytes=start- (here with start
\* inside the file and start <= end), the 206 answer echoes the range
\* satisfied: Content-Range names start and end with
\* 0 <= start <= end <= total-1, end is total-1 when the header omits it, and
\* Content-Length is the number of bytes streamed.
RangeEchoesSatisfied ==
  (/\ StreamedHasFile
   /\ res.status = 206
   /\ \E a \in 0..(Len(StreamedData) - 1) :
        \/ res.range = RangeFrom(a)
        \/ \E b \in a..10 : res.range = RangeOf(a, b)) =>
    /\ res.contentLength = Len(res.body)
    /\ \E a, b \in 0..(Len(StreamedData) - 1) :
         /\ a <= b
         /\ res.contentRange =
              <<"b", "y", "t", "e", "s", " ", Digit(a), "-", Digit(b), "/",
                Digit(Len(StreamedData))>>
         /\ res.range \in {RangeFrom(c) : c \in 0..3} => b = Len(StreamedData) - 1

\* C7: for a file track whose file exists, a stream request without a Range
\* header is answered 200 with Content-Length the size of the file and the
\* whole file as body.
NoRangeWholeFile ==
  (StreamedHasFile /\ res.range = NoRange) =>
    /\ res.status = 200
    /\ res.contentLength = Len(StreamedData)
    /\ res.body = StreamedData
    /\ ~res.threw

\* C7 witness: the file of four bytes streamed whole.
NoRangeWholeFileWitness ==
  /\ StreamedHasFile /\ res.range = NoRange
  /\ res.status = 200
  /\ res.body = <<65, 66, 67, 68>>

\* what a step of a stream handler is
StreamStep ==
  \/ res'.op = "stream"
  \/ \E r \in Slots : reqs'[r].op = "stream" /\ reqs'[r] # reqs[r]

\* the answer of a refused stream request
StreamRefused ==
  res.op = "stream" =>
    /\ ~res.saved
    /\ res.id \notin TrackIdsOf(res.db0.tracks) => res.status = 404 /\ res.body = <<>>
    /\ (/\ res.id \in TrackIdsOf(res.db0.tracks)
        /\ TrackOf(res.db0, res.id).type = "url") => res.status = 400 /\ res.body = <<>>
    /\ (/\ res.id \in TrackIdsOf(res.db0.tracks)
        /\ TrackOf(res.db0, res.id).type = "file"
        /\ TrackOf(res.db0, res.id).path \notin DOMAIN files) =>
         res.status = 404 /\ res.body = <<>>

\* C8: the stream endpoint answers 404 without the track, 400 for a track of
\* kind url, 404 for a file track whose file is missing, each without a body,
\* and no step of a stream handler changes the persisted store.
StreamRefusals == []StreamRefused /\ [][StreamStep => dbFile' = dbFile]_vars

\* C8 witness: 404 for a file track of the loaded store whose file had been
\* unlinked by the time the handler looked for it.
StreamRefusalsWitness ==
  /\ res.op = "stream" /\ res.status = 404
  /\ res.id \in TrackIdsOf(res.db0.tracks)
  /\ TrackOf(res.db0, res.id).type = "file"
  /\ TrackOf(res.db0, res.id).path \notin DOMAIN files

\* C9: an upload of n files answers with n tracks, one per file in the order
\* submitted, and saves the loaded store with exactly these appended; their
\* ids differ from each other and from every id of the loaded store, and the
\* track ids of every persisted store are pairwise distinct.
UploadCreates ==
  /\ Distinct([i \in 1..Len(dbFile.tracks) |-> dbFile.tracks[i].id])
  /\ (res.op = "upload" /\ res.status = 200) =>
       /\ Len(res.tracks) = Len(res.files)
       /\ Len(res.files) <= MaxUploadFiles
       /\ res.saved /\ dbFile.ok
       /\ dbFile.tracks = res.db0.tracks \o res.tracks
       /\ \A i \in 1..Len(res.tracks) :
            /\ res.tracks[i].type = "file"
            /\ res.tracks[i].path = res.files[i].filename
            /\ res.tracks[i].id \notin TrackIdsOf(res.db0.tracks)
       /\ Distinct([i \in 1..Len(res.tracks) |-> res.tracks[i].id])

\* C9 witness: an upload of two files answered, onto a store that had tracks.
UploadCreatesWitness ==
  /\ res.op = "upload" /\ res.status = 200
  /\ Len(res.files) = 2
  /\ Len(res.db0.tracks) >= 3
  /\ Len(dbFile.tracks) = Len(res.db0.tracks) + 2

\* C10: POST /api/playlists/:id/tracks answers 404 when the store it loaded
\* has no playlist with that id, 400 when it has the playlist but no track
\* with the trackId, and saves in neither case.
AddTrackRefusals ==
  res.op = "addPlaylistTrack" =>
    /\ res.id \notin DOMAIN res.db0.playlists => res.status = 404 /\ ~res.saved
    /\ (/\ res.id \in DOMAIN res.db0.playlists
        /\ res.trackId \notin TrackIdsOf(res.db0.tracks)) =>
         res.status = 400 /\ ~res.saved

\* a name that is missing, empty or made of white space only
Blank(s) == s = undefined \/ \A i \in 1..Len(s) : s[i] \in {" ", "\t"}

\* C11: POST /api/playlists with a missing, empty or whitespace-only name is
\* answered 400 without a save and the persisted document stays as it was;
\* and in every persisted store every playlist has a name that is not empty
\* and has no white space at either end, whatever creations and renames ran.
PlaylistNames ==
  /\ (res.op = "createPlaylist" /\ Blank(res.name)) =>
       (res.status = 400 /\ ~res.saved /\ dbFile = res.prev)
  /\ \A p \in DOMAIN dbFile.playlists :
       LET name == dbFile.playlists[p].name
       IN /\ ~Blank(name)
          /\ ~IsSpace(name[1])
          /\ ~IsSpace(name[Len(name)])

\* C11 witness: a creation with a whitespace-only name has been refused while
\* the store holds a playlist that a rename with a padded name has renamed.
PlaylistNamesWitness ==
  /\ res.op = "createPlaylist"
  /\ res.name # undefined
  /\ res.name # <<>>
  /\ Blank(res.name)
  /\ res.status = 400
  /\ \E p \in DOMAIN dbFile.playlists : dbFile.playlists[p].name = <<"P">>

\* C12: PUT /api/playlists/:id on a playlist of the loaded store with an empty
\* or whitespace-only name changes nothing: when it has answered, the persisted
\* document is the one that was persisted before its save, stored name
\* included, also when another request saved between its load and its save.
RenameBlankNoOp ==
  (/\ res.op = "renamePlaylist"
   /\ res.id \in DOMAIN res.db0.playlists
   /\ Blank(res.name)
   /\ res.status = 200)
    => dbFile = res.prev

\* C13: DELETE /api/playlists/:id/tracks/:trackId on a playlist of the loaded
\* store answers ok and saves the loaded store with the playlist's trackIds
\* without trackId, the other ids in the order they had; when trackId is not
\* in the playlist (as after a first removal of it) what it saves is the
\* store it loaded.
RemoveTrackIdempotent ==
  (res.op = "removePlaylistTrack" /\ res.id \in DOMAIN res.db0.playlists) =>
    /\ res.status = 200
    /\ res.saved
    /\ dbFile.tracks = res.db0.tracks
    /\ DOMAIN dbFile.playlists = DOMAIN res.db0.playlists
    /\ \A p \in DOMAIN dbFile.playlists :
         /\ dbFile.playlists[p].name = res.db0.playlists[p].name
         /\ dbFile.playlists[p].trackIds =
              IF p = res.id THEN Without(res.db0.playlists[p].trackIds, res.trackId)
              ELSE res.db0.playlists[p].trackIds
    /\ ~includes(res.db0.playlists[res.id].trackIds, res.trackId) =>
         dbFile = writeDB(res.db0)

\* C13 witness: the second of two removals of the same track from the same
\* playlist, one after the other, has answered: the first took the id from
\* between two others, the second found it gone and left the two in place.
RemoveTrackIdempotentWitness ==
  /\ res.op = "removePlaylistTrack"
  /\ res.status = 200
  /\ started = 2
  /\ res.id = 4
  /\ res.trackId = 1
  /\ res.prev = writeDB(res.db0)
  /\ 1 \in TrackIdsOf(dbFile.tracks)
  /\ res.db0.playlists[4].trackIds = <<3, 2>>
  /\ dbFile.playlists[4].trackIds = <<3, 2>>

\* C14: a request whose path names an id that the store it loaded does not
\* hold (a track id for DELETE /api/music/:id, a playlist id for the playlist
\* routes) is answered 404 without a save, and leaves the persisted document
\* as it was.
NotFoundRefusals ==
  /\ (res.op = "deleteTrack" /\ res.id \notin TrackIdsOf(res.db0.tracks)) =>
       (res.status = 404 /\ ~res.saved /\ dbFile = res.prev)
  /\ (/\ res.op \in {"renamePlaylist", "deletePlaylist", "addPlaylistTrack",
                     "removePlaylistTrack"}
      /\ res.id \notin DOMAIN res.db0.playlists) =>
       (res.status = 404 /\ ~res.saved /\ dbFile = res.prev)

\* C19: in DELETE /api/music/:id for a track of kind file, when the removal of
\* the physical file fails the handler goes on to its save with the track
\* taken out of its copy, and when it has answered, the answer is ok and the
\* store it saved has neither the track nor its id in any playlist.
DeleteSurvivesUnlinkFailure ==
  /\ \A r \in Slots :
       reqs[r].unlinkFailed =>
         /\ reqs[r].pc = "save"
         /\ reqs[r].id \notin TrackIdsOf(reqs[r].db.tracks)
  /\ res.unlinkFailed =>
       /\ res.op = "deleteTrack"
       /\ res.t.type = "file"
       /\ res.status = 200
       /\ res.saved
       /\ res.id \notin TrackIdsOf(dbFile.tracks)
       /\ \A p \in DOMAIN dbFile.playlists :
            ~includes(dbFile.playlists[p].trackIds, res.id)

\* C19 witness: a deletion of a file track that a playlist named has
\* answered ok after its unlink failed, the file still in the upload
\* directory.
DeleteSurvivesUnlinkFailureWitness ==
  /\ res.unlinkFailed
  /\ res.status = 200
  /\ res.t.path \in DOMAIN files
  /\ \E p \in DOMAIN res.db0.playlists : includes(res.db0.playlists[p].trackIds, res.id)

\* C20: the files of one upload request are stored under names that differ
\* from one another, and no two file tracks of a persisted store have the
\* same location, also when two files of the same original name are stored
\* at the same clock reading.
UniqueLocations ==
  /\ \A r \in Slots : Distinct([i \in 1..Len(reqs[r].files) |-> reqs[r].files[i].filename])
  /\ \A i, j \in 1..Len(dbFile.tracks) :
       (/\ dbFile.tracks[i].type = "file"
        /\ dbFile.tracks[j].type = "file"
        /\ dbFile.tracks[i].path = dbFile.tracks[j].path) => i = j

\* C16: while db.json is absent or unparseable every request is served from
\* the empty store without a server error: no handler throws, a request that
\* names a track or a playlist in its path is answered 404, and a request that
\* saves has loaded the empty store.
AbsentStoreServed ==
  (res.op # "none" /\ ~res.prev.ok) =>
    /\ ~res.threw
    /\ res.status \in {200, 400, 404}
    /\ res.db0 = EmptyDB
    /\ res.op \in {"deleteTrack", "stream", "renamePlaylist", "deletePlaylist",
                   "addPlaylistTrack", "removePlaylistTrack"} => res.status = 404

\* the ids of the tracks and the playlists of a store
IdsOf(db) == TrackIdsOf(db.tracks) \cup DOMAIN db.playlists

\* C18: a save writes the copy its request loaded and changed, whatever was
\* persisted in between: a track or playlist that another request created
\* and persisted after this request's load is absent from the store after
\* this request's save, and one that another request deleted meanwhile is
\* back, unless this request deletes it itself.
LostUpdate ==
  res.saved =>
    /\ \A x \in IdsOf(res.prev) \ IdsOf(res.db0) : x \notin IdsOf(dbFile)
    /\ \A x \in IdsOf(res.db0) \ IdsOf(res.prev) :
         (res.op \in {"deleteTrack", "deletePlaylist"} /\ res.id = x) \/ x \in IdsOf(dbFile)

\* C18 witness: two creations of a playlist loaded the same store; the first
\* saved and was answered ok, the second has now saved, and the first one's
\* playlist is not in the persisted store.
LostUpdateWitness ==
  /\ res.saved
  /\ res.op = "createPlaylist"
  /\ res.db0.playlists # <<>>
  /\ \E x \in DOMAIN res.prev.playlists :
       /\ x \notin DOMAIN res.db0.playlists
       /\ res.prev = writeDB(CreatePlaylistDb(res.db0, x, <<"P">>))
       /\ x \notin DOMAIN dbFile.playlists

\* the first and the last position of a character in a string, 0 for none
FirstIndex(s, c) ==
  LET hits == {i \in 1..Len(s) : s[i] = c}
  IN IF hits = {} THEN 0 ELSE CHOOSE i \in hits : \A j \in hits : i <= j

LastIndex(s, c) ==
  LET hits == {i \in 1..Len(s) : s[i] = c}
  IN IF hits = {} THEN 0 ELSE CHOOSE i \in hits : \A j \in hits : j <= i

\* the hints of a stem whose genre bracket, if the text after the first
\* hyphen ends with a closing bracket, opens at position open(after)
HintsWith(stem, open(_)) ==
  LET h == FirstIndex(stem, "-")
      after == SubSeq(stem, h + 1, Len(stem))
      b == open(after)
      bracket == after # <<>> /\ b > 0 /\ after[Len(after)] = "]"
  IN IF h = 0 THEN [title |-> stem, artist |-> <<>>, genre |-> <<>>]
     ELSE [artist |-> trim(SubSeq(stem, 1, h - 1)),
           title |-> trim(IF bracket THEN SubSeq(after, 1, b - 1) ELSE after),
           genre |-> IF bracket THEN trim(SubSeq(after, b + 1, Len(after) - 1)) ELSE <<>>]

OpensLast(after) == LastIndex(after, "[")

OpensFirst(after) == FirstIndex(after, "[")

\* C17: parseFromFilename, on the last segment of a url whose stem has no
\* line break: with a hyphen in the stem, artist is the trimmed text before
\* the first hyphen, title the trimmed text after it without the bracket that
\* ends the stem, genre the trimmed content of that bracket or empty; with no
\* hyphen, title is the stem and artist and genre are empty.  The bracket
\* that ends the stem is read as the last one: it opens at the last '['.
HintsAsClaimed ==
  (res.op = "addUrl" /\ res.saved /\ ~HasLineTerminator(WithoutExt(res.segment))) =>
    res.hints = HintsWith(WithoutExt(res.segment), OpensLast)

\* C17 as the code has it: the same, with the genre bracket opening at the
\* first '[' after the first hyphen, so that title is the trimmed text
\* between that hyphen and that '[', and genre the trimmed text from there
\* to the ']' that ends the stem.
HintsParsed ==
  (res.op = "addUrl" /\ res.saved /\ ~HasLineTerminator(WithoutExt(res.segment))) =>
    res.hints = HintsWith(WithoutExt(res.segment), OpensFirst)

\* C17 witness: 'Daft Punk - One More Time [Dance].mp3' has been parsed into
\* artist 'Daft Punk', title 'One More Time', genre 'Dance'.
HintsParsedWitness ==
  /\ res.op = "addUrl"
  /\ res.saved
  /\ res.url = DaftPunkUrl
  /\ res.segment = <<"D", "a", "f", "t", " ", "P", "u", "n", "k", " ", "-", " ", "O", "n", "e", " ", "M", "o", "r", "e", " ", "T", "i", "m", "e", " ", "[", "D", "a", "n", "c", "e", "]", ".", "m", "p", "3">>
  /\ res.hints = [artist |-> <<"D", "a", "f", "t", " ", "P", "u", "n", "k">>, title |-> <<"O", "n", "e", " ", "M", "o", "r", "e", " ", "T", "i", "m", "e">>, genre |-> <<"D", "a", "n", "c", "e">>]

\* an override that the body supplies: a string that is not empty
Supplied(v) == v # undefined /\ v # <<>>

\* what POST /api/music/url has answered, as C15 has it
UrlAnswered ==
  res.op = "addUrl" =>
    IF res.reqBody.url = undefined \/ res.reqBody.url = <<>>
    THEN res.status = 400 /\ ~res.saved /\ dbFile = res.prev
    ELSE /\ res.status = 200
         /\ res.saved
         /\ dbFile.playlists = res.db0.playlists
         /\ Len(dbFile.tracks) = Len(res.db0.tracks) + 1
         /\ SubSeq(dbFile.tracks, 1, Len(res.db0.tracks)) = res.db0.tracks
         /\ LET t == dbFile.tracks[Len(dbFile.tracks)]
                b == res.reqBody
            IN /\ res.tracks = <<t>>
               /\ t.id \notin TrackIdsOf(res.db0.tracks)
               /\ t.type = "url"
               /\ t.src = b.url
               /\ t.path = NoPath
               /\ t.duration = 0
               /\ t.title = IF Supplied(b.title) THEN b.title
                            ELSE IF res.hints.title # <<>> THEN res.hints.title
                            ELSE res.segment
               /\ t.artist = IF Supplied(b.artist) THEN b.artist ELSE res.hints.artist
               /\ t.genre = IF Supplied(b.genre) THEN b.genre ELSE res.hints.genre
               /\ t.album = IF Supplied(b.album) THEN b.album ELSE <<>>

\* C15: POST /api/music/url with url missing or empty is answered 400 and
\* nothing is persisted; otherwise the store it saves is the loaded store with
\* one more track, of kind url, located at the given url, of duration 0, with
\* each of title, artist and genre the override when one is supplied and the
\* hint from the url's last segment when not; and no step of the request
\* changes the upload directory.
UrlTrackCreated == []UrlAnswered /\ [][files' = files]_vars

\* C15 witness: a url whose last segment hints at title, artist and genre has
\* been added with the title overridden and the artist and genre left to the
\* hints.
UrlTrackCreatedWitness ==
  /\ res.op = "addUrl"
  /\ res.saved
  /\ res.reqBody.title = <<"X">>
  /\ res.reqBody.artist = <<>>
  /\ res.reqBody.genre = undefined
  /\ res.hints = [artist |-> <<"A">>, title |-> <<"T">>, genre |-> <<"G">>]
  /\ dbFile.tracks[Len(dbFile.tracks)].title = <<"X">>
  /\ dbFile.tracks[Len(dbFile.tracks)].artist = <<"A">>
  /\ dbFile.tracks[Len(dbFile.tracks)].genre = <<"G">>

\* C21: whenever no call of playCurrent is pending, state.currentIndex is -1
\* or an index into state.queue.
QueueIndexValid ==
  call.pc # "playCurrent" =>
    \/ state.currentIndex = -1
    \/ 0 <= state.currentIndex /\ state.currentIndex < Len(state.queue)

\* the entries of the queue from index from on whose track is in the library
Playable(from) ==
  {i \in from..(Len(state.queue) - 1) : getTrackById(state.queue[i + 1]) # NoTrack}

\* the first of them
FirstPlayable(from) == CHOOSE i \in Playable(from) : \A j \in Playable(from) : i <= j

\* C22: when enqueueTrack(id, {playNow: true}) has returned, for a track of
\* the library, the current entry of the queue is id and audio.src is the
\* source of that track; when enqueueTrack(id) has returned and no entry of
\* the queue was current when it began, the audio element has been given the
\* first entry of the queue whose track is in the library.
PlayNowPlays ==
  call.pc = "done" =>
    /\ call.op = "enqueuePlayNow" =>
         /\ 0 <= state.currentIndex /\ state.currentIndex < Len(state.queue)
         /\ state.queue[state.currentIndex + 1] = call.id
         /\ audio.src = trackToSrc(getTrackById(call.id))
    /\ (call.op = "enqueue" /\ call.nothing) =>
         /\ state.currentIndex = FirstPlayable(0)
         /\ audio.src = trackToSrc(getTrackById(state.queue[state.currentIndex + 1]))

\* where a handler that called playCurrent on an entry of the queue has
\* ended: on the first entry from there on whose track is in the library,
\* that track given to the audio element, or, when there is none, on the last
\* entry of the queue with the audio element paused
SkipEnds ==
  (call.pc = "done" /\ 0 <= call.start /\ call.start < Len(state.queue)) =>
    IF Playable(call.start) # {}
    THEN /\ state.currentIndex = FirstPlayable(call.start)
         /\ audio.src = trackToSrc(getTrackById(state.queue[state.currentIndex + 1]))
    ELSE /\ state.currentIndex = Len(state.queue) - 1
         /\ audio.paused

\* while it skips, the index stays in the queue and on entries not yet passed
SkipBound ==
  (call.pc = "playCurrent" /\ call.start < Len(state.queue)) =>
    /\ call.start <= state.currentIndex
    /\ state.currentIndex <= Len(state.queue) - 1
    /\ Playable(call.start) \cap call.start..(state.currentIndex - 1) = {}

\* C23: every call of playCurrent ends; from an entry whose track is no
\* longer in the library it goes on over the missing entries that follow and
\* ends playing the first later entry whose track exists, or paused on the
\* last entry of the queue, and the skip never takes currentIndex past the
\* last entry.
SkipMissing ==
  /\ [](SkipEnds /\ SkipBound)
  /\ (call.pc = "playCurrent") ~> (call.pc = "done")

\* C23 witness: a playlist of three was played whose first two tracks are not
\* in the library: playCurrent has ended on the third, given to the audio
\* element.
SkipMissingWitness ==
  /\ call.pc = "done"
  /\ call.op = "playPlaylist"
  /\ Len(state.queue) = 3
  /\ Playable(0) = {2}
  /\ state.currentIndex = 2
  /\ audio.src = trackToSrc(getTrackById(state.queue[3]))

====
